---- MODULE Spec2Model ----
(***************************************************************************)
(* Model of django-factory-generator: the field classifier and the model   *)
(* factory planner (generator.py, FactoryFieldGenerator and                *)
(* FactoryModelGenerator.context_base), the strategy registry              *)
(* (fields_faker.py), and the file placement done by                       *)
(* FactoryModelGenerator.create_files, FactoryAppGenerator.create_files    *)
(* and the generate_factories command.                                     *)
(*                                                                         *)
(* Three specifications share the variables:                                 *)
(*   SpecPlan  draws the settings and the fields of one model from bounded *)
(*             sets and applies context_base to the model;                 *)
(*   Spec      runs the command over a fixed set of applications, with a   *)
(*             user editing files and models between the runs;             *)
(*   SpecFaker draws a strategy identifier, a strategy class of the        *)
(*             project and a field, and applies import_from_string and     *)
(*             FieldFaker.get_faker_kwargs.                                *)
(***************************************************************************)
EXTENDS Integers, Sequences, FiniteSets, TLC

VARIABLES
    settings,       \* django.conf.settings
    pmodel,         \* SpecPlan: the fields of the model given to the planner
    kinds,          \* SpecPlan: field_class of each field of pmodel
    plan,           \* SpecPlan: the result of context_base
    planned,        \* SpecPlan: whether context_base has been applied
    schema,         \* the fields of every model of the project
    fs,             \* the file system under BASE_DIR: path -> what it holds
    pc,             \* the command: "idle", "running", "done" or "failed"
    appIdx,         \* handle: position in apps.get_app_configs()
    modelIdx,       \* FactoryAppGenerator.create_files: position in get_models()
    imports,        \* FactoryAppGenerator.create_files: imports
    app_created,    \* FactoryAppGenerator.create_files: created_files
    created_files,  \* handle: created_files
    stdout,         \* handle: the paths written to stdout
    runs,           \* number of runs of the command started so far
    edits,          \* number of user actions so far
    fs0,            \* the file system when the current run started
    touched,        \* a user action happened since the last run ended
    rerun,          \* the current run started from the result of a run
    fident,         \* SpecFaker: the identifier given to import_from_string
    ucls,           \* SpecFaker: the class myapp.fakers.PlainFaker as written
    ffield,         \* SpecFaker: the field the strategy is built for
    fstep,          \* SpecFaker: "init", "imported" or "done"
    fimport,        \* SpecFaker: the result of import_from_string
    fkwargs         \* SpecFaker: the result of get_faker_kwargs

planVars == <<pmodel, kinds, plan, planned>>
runVars == <<schema, fs, pc, appIdx, modelIdx, imports, app_created,
             created_files, stdout, runs, edits, fs0, touched, rerun>>
fakerVars == <<fident, ucls, ffield, fstep, fimport, fkwargs>>
vars == <<settings, planVars, runVars, fakerVars>>

(***************************************************************************)
(* Bounds                                                                  *)
(***************************************************************************)
\* largest number of fields of the model planned under SpecPlan
MaxFields == 2
\* largest number of runs of the command in one behaviour of Spec
MaxRuns == 2
\* largest number of user actions (edits, deletions, model changes) in one
\* behaviour of Spec
MaxEdits == 2
\* largest number of required parameters of the project's strategy class
\* under SpecFaker
MaxKwargs == 2

(***************************************************************************)
(* Settings (django.conf.settings) and the host's field descriptors        *)
(***************************************************************************)
EmptyMap == [k \in {} |-> ""]

\* the identifier of a strategy class is a dotted path; it is kept as the
\* sequence of its parts, which is what val.split('.') yields
FakerId(class_name) == <<"factory_generator", "fields_faker", class_name>>

\* a strategy class of the project using the generator, without timezone
PlainFakerId == <<"myapp", "fakers", "PlainFaker">>
\* an identifier whose module exists and whose class does not
MissingFakerId == <<"myapp", "fakers", "NoSuchFaker">>
\* an identifier whose module does not exist
NoModuleFakerId == <<"nopkg", "fakers", "PlainFaker">>
\* an identifier without a module part
BareFakerId == <<"PlainFaker">>

\* names of the fields of a model, by position in the declaration
FieldNames == <<"f1", "f2", "f3", "f4">>

\* the field descriptors the inputs are drawn from.  A
\* django.db.models.Field has the attributes choices and unique; a reverse
\* relation (ForeignObjectRel) has neither and is never editable.
\* MoneyField is a third-party kind that the built-in registry does not know.
FieldShapes ==
    [class_name : {"AutoField"}, has_choices_attr : {TRUE},
     choices : {<<>>}, editable : {TRUE},
     has_unique_attr : {TRUE}, unique : {TRUE}]
    \cup
    [class_name : {"CharField"}, has_choices_attr : {TRUE},
     choices : {<<>>, <<"a", "b">>}, editable : BOOLEAN,
     has_unique_attr : {TRUE}, unique : BOOLEAN]
    \cup
    [class_name : {"DateTimeField"}, has_choices_attr : {TRUE},
     choices : {<<>>, <<"a", "b">>}, editable : BOOLEAN,
     has_unique_attr : {TRUE}, unique : {FALSE}]
    \cup
    [class_name : {"ForeignKey", "MoneyField"}, has_choices_attr : {TRUE},
     choices : {<<>>, <<"a", "b">>}, editable : {TRUE},
     has_unique_attr : {TRUE}, unique : {FALSE}]
    \cup
    [class_name : {"ManyToOneRel"}, has_choices_attr : {FALSE},
     choices : {<<>>}, editable : {FALSE},
     has_unique_attr : {FALSE}, unique : {FALSE}]

MkField(name, shape) ==
    [name |-> name, class_name |-> shape.class_name,
     has_choices_attr |-> shape.has_choices_attr, choices |-> shape.choices,
     editable |-> shape.editable,
     has_unique_attr |-> shape.has_unique_attr, unique |-> shape.unique]

\* the settings SpecPlan draws from
PlanSettings ==
    [FACTORY_NORMALIZE_FIELD_MAP :
        {EmptyMap, [k \in {"MoneyField"} |-> "DecimalField"]},
     FACTORY_IGNORE_FIELDS : {{}, {"ForeignKey"}},
     FACTORY_IGNORE_NON_EDITABLE_FIELDS : BOOLEAN,
     FACTORY_FIELD_FAKER_MAP :
        {EmptyMap, [k \in {"DateTimeField"} |-> PlainFakerId],
         [k \in {"MoneyField"} |-> MissingFakerId]},
     FACTORY_ONLY_APPS : {{}},
     FACTORY_IGNORE_APPS : {{}}]

(***************************************************************************)
(* fields_faker.py: the strategy classes and the registry                  *)
(***************************************************************************)
BuiltinFakerNames ==
    {"BigIntegerFieldFaker", "BinaryFieldFaker", "BooleanFieldFaker",
     "CharFieldFaker", "ChoiceFieldFaker", "DateFieldFaker",
     "DateTimeFieldFaker", "DecimalFieldFaker", "DurationFieldFaker",
     "EmailFieldFaker", "FileFieldFaker", "FilePathFieldFaker",
     "FloatFieldFaker", "ForeignKeyFaker", "ImageFieldFaker",
     "IntegerFieldFaker", "GenericIPAddressFieldFaker",
     "ManyToManyFieldFaker", "NullBooleanFieldFaker", "OneToOneFieldFaker",
     "PositiveIntegerFieldFaker", "PositiveSmallIntegerFieldFaker",
     "SlugFieldFaker", "SmallIntegerFieldFaker", "TextFieldFaker",
     "TimeFieldFaker", "URLFieldFaker", "UUIDFieldFaker"}

\* the classes that set need_timezone = True; FieldFaker's default is False
TimezoneFakerNames ==
    {"DateFieldFaker", "DateTimeFieldFaker", "DurationFieldFaker", "TimeFieldFaker"}

\* the importable modules and the classes each defines
Modules ==
    [m \in {<<"factory_generator", "fields_faker">>, <<"myapp", "fakers">>} |->
        IF m = <<"myapp", "fakers">> THEN {"PlainFaker"} ELSE BuiltinFakerNames]

\* the class attribute need_timezone of a strategy class
ClassNeedTimezone(module_path, class_name) ==
    /\ module_path = <<"factory_generator", "fields_faker">>
    /\ class_name \in TimezoneFakerNames

BASE_FIELD_FAKER_MAP ==
    [k \in {"BigIntegerField", "BinaryField", "BooleanField", "CharField",
            "ChoiceField", "DateField", "DateTimeField", "DecimalField",
            "DurationField", "EmailField", "FileField", "FilePathField",
            "FloatField", "ForeignKey", "ImageField", "IntegerField",
            "GenericIPAddressField", "ManyToManyField", "NullBooleanField",
            "OneToOneField", "PositiveIntegerField",
            "PositiveSmallIntegerField", "SlugField", "SmallIntegerField",
            "TextField", "TimeField", "URLField", "UUIDField"} |->
        CASE k = "ForeignKey" -> FakerId("ForeignKeyFaker")
          [] k = "OneToOneField" -> FakerId("OneToOneFieldFaker")
          [] k = "BigIntegerField" -> FakerId("BigIntegerFieldFaker")
          [] k = "BinaryField" -> FakerId("BinaryFieldFaker")
          [] k = "BooleanField" -> FakerId("BooleanFieldFaker")
          [] k = "CharField" -> FakerId("CharFieldFaker")
          [] k = "ChoiceField" -> FakerId("ChoiceFieldFaker")
          [] k = "DateField" -> FakerId("DateFieldFaker")
          [] k = "DateTimeField" -> FakerId("DateTimeFieldFaker")
          [] k = "DecimalField" -> FakerId("DecimalFieldFaker")
          [] k = "DurationField" -> FakerId("DurationFieldFaker")
          [] k = "EmailField" -> FakerId("EmailFieldFaker")
          [] k = "FileField" -> FakerId("FileFieldFaker")
          [] k = "FilePathField" -> FakerId("FilePathFieldFaker")
          [] k = "FloatField" -> FakerId("FloatFieldFaker")
          [] k = "ImageField" -> FakerId("ImageFieldFaker")
          [] k = "IntegerField" -> FakerId("IntegerFieldFaker")
          [] k = "GenericIPAddressField" -> FakerId("GenericIPAddressFieldFaker")
          [] k = "ManyToManyField" -> FakerId("ManyToManyFieldFaker")
          [] k = "NullBooleanField" -> FakerId("NullBooleanFieldFaker")
          [] k = "PositiveIntegerField" -> FakerId("PositiveIntegerFieldFaker")
          [] k = "PositiveSmallIntegerField" -> FakerId("PositiveSmallIntegerFieldFaker")
          [] k = "SlugField" -> FakerId("SlugFieldFaker")
          [] k = "SmallIntegerField" -> FakerId("SmallIntegerFieldFaker")
          [] k = "TextField" -> FakerId("TextFieldFaker")
          [] k = "TimeField" -> FakerId("TimeFieldFaker")
          [] k = "URLField" -> FakerId("URLFieldFaker")
          [] k = "UUIDField" -> FakerId("UUIDFieldFaker")]

\* get_field_faker_map: the built-in table updated with the caller's table
get_field_faker_map(cfg) ==
    [k \in DOMAIN BASE_FIELD_FAKER_MAP \cup DOMAIN cfg.FACTORY_FIELD_FAKER_MAP |->
        IF k \in DOMAIN cfg.FACTORY_FIELD_FAKER_MAP
        THEN cfg.FACTORY_FIELD_FAKER_MAP[k]
        ELSE BASE_FIELD_FAKER_MAP[k]]

FIELD_FAKER_MAP(cfg) == get_field_faker_map(cfg)

(***************************************************************************)
(* Exceptions: the class, what the message names, and the wrapped cause    *)
(***************************************************************************)
NoError == [type |-> "", names |-> <<>>, cause |-> ""]
Raised(type, names, cause) == [type |-> type, names |-> names, cause |-> cause]

(***************************************************************************)
(* utils.py                                                                *)
(***************************************************************************)
\* import_from_string: the module is the path without its last part, the
\* class the last part.  import_module('') raises ValueError("Empty module
\* name"), which the except clause (ImportError, AttributeError) lets
\* through; a missing module (ModuleNotFoundError, an ImportError) and a
\* missing class (AttributeError) are raised again as an ImportError whose
\* message names val and the class of the cause
import_from_string(val) ==
    LET module_path == SubSeq(val, 1, Len(val) - 1)
        class_name == val[Len(val)]
    IN  IF module_path = <<>>
        THEN [ok |-> FALSE, error |-> Raised("ValueError", <<>>, ""),
              module_path |-> <<>>, class_name |-> "", need_timezone |-> FALSE]
        ELSE IF module_path \notin DOMAIN Modules
        THEN [ok |-> FALSE, error |-> Raised("ImportError", val, "ModuleNotFoundError"),
              module_path |-> <<>>, class_name |-> "", need_timezone |-> FALSE]
        ELSE IF class_name \notin Modules[module_path]
        THEN [ok |-> FALSE, error |-> Raised("ImportError", val, "AttributeError"),
              module_path |-> <<>>, class_name |-> "", need_timezone |-> FALSE]
        ELSE [ok |-> TRUE, error |-> NoError,
              module_path |-> module_path, class_name |-> class_name,
              need_timezone |-> ClassNeedTimezone(module_path, class_name)]

(***************************************************************************)
(* generator.py: FactoryFieldGenerator                                     *)
(***************************************************************************)
NORMALIZE_FIELD_MAP(cfg) == cfg.FACTORY_NORMALIZE_FIELD_MAP

IGNORE_FIELDS(cfg) ==
    {"ManyToOneRel", "ManyToManyRel", "OneToOneRel", "AutoField", "BigAutoField"}
        \cup cfg.FACTORY_IGNORE_FIELDS

has_choices(field) == field.has_choices_attr /\ Len(field.choices) > 0

\* a classifier that looks at the alias table before the choices
field_class_alias_first(cfg, field) ==
    IF field.class_name \in DOMAIN NORMALIZE_FIELD_MAP(cfg)
    THEN NORMALIZE_FIELD_MAP(cfg)[field.class_name]
    ELSE IF has_choices(field) THEN "ChoiceField" ELSE field.class_name

field_class(cfg, field) ==
    IF has_choices(field) THEN "ChoiceField"
    ELSE IF field.class_name \in DOMAIN NORMALIZE_FIELD_MAP(cfg)
         THEN NORMALIZE_FIELD_MAP(cfg)[field.class_name]
         ELSE field.class_name

\* an ignore rule that forgets the non-editable fields
is_ignored_list_only(cfg, field) ==
    field_class(cfg, field) \in IGNORE_FIELDS(cfg)

is_ignored(cfg, field) ==
    IF field_class(cfg, field) \in IGNORE_FIELDS(cfg) THEN TRUE
    ELSE IF ~field.editable /\ cfg.FACTORY_IGNORE_NON_EDITABLE_FIELDS THEN TRUE
    ELSE FALSE

\* field_faker_string: FIELD_FAKER_MAP[self.field_class], a KeyError when
\* the kind is not registered
field_faker_string(cfg, field) ==
    LET kind == field_class(cfg, field)
    IN  IF kind \in DOMAIN FIELD_FAKER_MAP(cfg)
        THEN [ok |-> TRUE, error |-> NoError, id |-> FIELD_FAKER_MAP(cfg)[kind]]
        ELSE [ok |-> FALSE, error |-> Raised("KeyError", <<kind>>, ""), id |-> <<>>]

field_faker_class(cfg, field) ==
    LET s == field_faker_string(cfg, field)
    IN  IF ~s.ok
        THEN [ok |-> FALSE, error |-> s.error,
              module_path |-> <<>>, class_name |-> "", need_timezone |-> FALSE]
        ELSE import_from_string(s.id)

\* need_timezone: the class attribute of the field's strategy class
need_timezone(cfg, field) == field_faker_class(cfg, field)

\* render_choices_list: the choices block of the field
render_choices_list(field) == field.name

(***************************************************************************)
(* generator.py: FactoryModelGenerator.context_base                        *)
(***************************************************************************)
\* the context before the loop over the fields
EmptyContext ==
    [ok |-> TRUE, error |-> NoError, need_timezone |-> FALSE,
     fields |-> <<>>, choices |-> <<>>, unique |-> <<>>, unique_kwargs |-> <<>>]

\* what the caller of a context_base that raised can see of it
RaisedContext(error) ==
    [ok |-> FALSE, error |-> error, need_timezone |-> FALSE,
     fields |-> <<>>, choices |-> <<>>, unique |-> <<>>, unique_kwargs |-> <<>>]

\* a step that records the name of every field, unique or not
add_unique_always(res, field) ==
    [res EXCEPT !.unique = Append(@, field.name)]

\* lines 249-250
add_unique(res, field) ==
    IF field.has_unique_attr /\ field.unique
    THEN [res EXCEPT !.unique = Append(@, field.name)]
    ELSE res

\* lines 251-252
add_choices(res, field) ==
    IF has_choices(field)
    THEN [res EXCEPT !.choices = Append(@, render_choices_list(field))]
    ELSE res

\* a step that never raises the flag
add_timezone_never(res, tz) == res

\* lines 253-254
add_timezone(res, tz) ==
    IF tz.need_timezone THEN [res EXCEPT !.need_timezone = TRUE] ELSE res

\* lines 255-258
add_field(res, field) ==
    LET r == [res EXCEPT !.fields = Append(@, field.name)]
    IN  IF r.unique # <<>> THEN [r EXCEPT !.unique_kwargs = r.unique] ELSE r

\* the body of the loop for one field
context_base_step(cfg, res, field) ==
    IF is_ignored(cfg, field) THEN res
    ELSE LET tz == need_timezone(cfg, field)
         IN  IF ~tz.ok THEN RaisedContext(tz.error)
             ELSE add_field(add_timezone(add_choices(add_unique(res, field), field), tz), field)

RECURSIVE context_base_loop(_, _, _, _)
context_base_loop(cfg, fields, i, res) ==
    IF i > Len(fields) \/ ~res.ok THEN res
    ELSE context_base_loop(cfg, fields, i + 1,
                           context_base_step(cfg, res, fields[i]))

context_base(cfg, fields) == context_base_loop(cfg, fields, 1, EmptyContext)

(***************************************************************************)
(* fields_faker.py: the strategy classes and FieldFaker.get_faker_kwargs   *)
(***************************************************************************)
\* Python values of the parameters.  The bounds of the 32 and 64 bit
\* integer kinds are kept as the text of the literal.
PyNone == [t |-> "None", i |-> 0, s |-> ""]
PyStr(s) == [t |-> "str", i |-> 0, s |-> s]
PyInt(i) == [t |-> "int", i |-> i, s |-> ""]
PyLongInt(s) == [t |-> "int", i |-> 0, s |-> s]
PyTuple(s) == [t |-> "tuple", i |-> 0, s |-> s]

\* what the strategies read of a field: its name, null, protocol, the
\* sizes and the model the relation points to
FakerFields ==
    [name : {"f1"}, null : BOOLEAN, protocol : {"both", "IPv4", "IPv6"},
     max_length : {100}, max_digits : {10}, decimal_places : {2},
     remote_app : {"shop"}, remote_model : {"Order"}]

\* a strategy class: its required parameters (faker_kwargs), the
\* parameters rendered without quotes (unquote_kwargs), the parameters it
\* has a get_<name> method for, and those it has a plain attribute for
FakerClass(name, faker_kwargs, unquote_kwargs, methods, attrs) ==
    [name |-> name, faker_kwargs |-> faker_kwargs,
     unquote_kwargs |-> unquote_kwargs, methods |-> methods, attrs |-> attrs]

\* the classes of fields_faker.py
BuiltinClass(name) ==
    CASE name \in {"BigIntegerFieldFaker", "IntegerFieldFaker",
                   "PositiveIntegerFieldFaker", "PositiveSmallIntegerFieldFaker",
                   "SmallIntegerFieldFaker"} ->
            FakerClass(name, <<"provider", "min", "max">>, {}, {"min", "max"}, {"provider"})
      [] name = "BinaryFieldFaker" ->
            FakerClass(name, <<"provider", "length">>, {}, {}, {"provider", "length"})
      [] name = "BooleanFieldFaker" ->
            FakerClass(name, <<"provider", "elements">>, {}, {"elements"}, {"provider"})
      [] name = "CharFieldFaker" ->
            FakerClass(name, <<"provider", "max_chars">>, {}, {"max_chars"}, {"provider"})
      [] name = "ChoiceFieldFaker" ->
            FakerClass(name, <<"provider", "elements">>, {"elements"}, {"elements"}, {"provider"})
      [] name \in {"DateFieldFaker", "DateTimeFieldFaker"} ->
            FakerClass(name, <<"provider", "end_datetime", "tzinfo">>, {"tzinfo"},
                       {"end_datetime", "tzinfo"}, {"provider"})
      [] name \in {"DecimalFieldFaker", "FloatFieldFaker"} ->
            FakerClass(name, <<"provider", "left_digits", "right_digits", "positive">>, {},
                       {"positive", "left_digits", "right_digits"}, {"provider"})
      [] name = "DurationFieldFaker" ->
            FakerClass(name, <<"provider", "end_datetime">>, {}, {"end_datetime"}, {"provider"})
      [] name \in {"EmailFieldFaker", "FilePathFieldFaker", "SlugFieldFaker",
                   "TextFieldFaker", "URLFieldFaker", "UUIDFieldFaker"} ->
            FakerClass(name, <<"provider">>, {}, {}, {"provider"})
      [] name \in {"FileFieldFaker", "ImageFieldFaker", "ManyToManyFieldFaker"} ->
            FakerClass(name, <<>>, {}, {}, {})
      [] name \in {"ForeignKeyFaker", "OneToOneFieldFaker"} ->
            FakerClass(name, <<"factory">>, {}, {"factory"}, {})
      [] name = "GenericIPAddressFieldFaker" ->
            FakerClass(name, <<"provider">>, {}, {"provider"}, {})
      [] name = "NullBooleanFieldFaker" ->
            FakerClass(name, <<"provider", "elements">>, {}, {}, {"provider", "elements"})
      [] name = "TimeFieldFaker" ->
            FakerClass(name, <<"provider", "end_datetime">>, {}, {}, {"provider", "end_datetime"})

\* the names the project's strategy class draws its parameters from
ParamNames == {"provider", "length", "tzinfo"}

SeqsUpTo(S, n) == UNION {[1..k -> S] : k \in 0..n}

\* the ways the project can write its class myapp.fakers.PlainFaker
UserClasses ==
    {FakerClass("PlainFaker", kw, {"tzinfo"}, ms, as) :
        kw \in SeqsUpTo(ParamNames, MaxKwargs),
        ms \in SUBSET ParamNames, as \in SUBSET ParamNames}

\* PlainFaker with FieldFaker's defaults only
DefaultUserClass == FakerClass("PlainFaker", <<>>, {}, {}, {})

\* the plain attribute <kwarg> of a class
AttrValue(cls, kwarg) ==
    IF cls.name = "PlainFaker" THEN PyStr("attribute")
    ELSE CASE kwarg = "length" -> PyInt(300)
           [] kwarg = "elements" -> PyTuple("(None, True, False)")
           [] kwarg = "end_datetime" -> PyNone
           [] kwarg = "provider" ->
                CASE cls.name \in {"BigIntegerFieldFaker", "IntegerFieldFaker",
                                   "PositiveIntegerFieldFaker",
                                   "PositiveSmallIntegerFieldFaker",
                                   "SmallIntegerFieldFaker"} -> PyStr("random_int")
                  [] cls.name = "BinaryFieldFaker" -> PyStr("binary")
                  [] cls.name \in {"BooleanFieldFaker", "ChoiceFieldFaker",
                                   "NullBooleanFieldFaker"} -> PyStr("random_element")
                  [] cls.name = "CharFieldFaker" -> PyStr("pystr")
                  [] cls.name \in {"DateFieldFaker", "DateTimeFieldFaker"} -> PyStr("date_time")
                  [] cls.name = "DecimalFieldFaker" -> PyStr("pydecimal")
                  [] cls.name = "DurationFieldFaker" -> PyStr("time_delta")
                  [] cls.name = "EmailFieldFaker" -> PyStr("safe_email")
                  [] cls.name = "FilePathFieldFaker" -> PyStr("file_path")
                  [] cls.name = "FloatFieldFaker" -> PyStr("pyfloat")
                  [] cls.name = "SlugFieldFaker" -> PyStr("slug")
                  [] cls.name = "TextFieldFaker" -> PyStr("text")
                  [] cls.name = "TimeFieldFaker" -> PyStr("time_object")
                  [] cls.name = "URLFieldFaker" -> PyStr("url")
                  [] cls.name = "UUIDFieldFaker" -> PyStr("uuid4")

Returned(val) == [ok |-> TRUE, error |-> NoError, val |-> val]

\* GenericIPAddressFieldFaker.get_provider.  The module never imports
\* random, so random.choice raises NameError; the third test repeats
\* 'IPv4', so for 'IPv6' the method falls off its end and returns None
get_provider(field) ==
    IF field.protocol = "both"
    THEN [ok |-> FALSE, error |-> Raised("NameError", <<"random">>, ""), val |-> PyNone]
    ELSE IF field.protocol = "IPv4" THEN Returned(PyStr("ipv4"))
    ELSE IF field.protocol = "IPv4" THEN Returned(PyStr("ipv6"))
    ELSE Returned(PyNone)

\* the method get_<kwarg> of a class, called for a field
MethodCall(cls, kwarg, field) ==
    IF cls.name = "PlainFaker" THEN Returned(PyStr("computed"))
    ELSE CASE kwarg = "min" ->
                CASE cls.name = "BigIntegerFieldFaker" -> Returned(PyLongInt("-9223372036854775808"))
                  [] cls.name \in {"IntegerFieldFaker"} -> Returned(PyLongInt("-2147483648"))
                  [] cls.name = "SmallIntegerFieldFaker" -> Returned(PyInt(-32768))
                  [] OTHER -> Returned(PyInt(0))
           [] kwarg = "max" ->
                CASE cls.name = "BigIntegerFieldFaker" -> Returned(PyLongInt("9223372036854775807"))
                  [] cls.name \in {"IntegerFieldFaker", "PositiveIntegerFieldFaker"} ->
                        Returned(PyLongInt("2147483647"))
                  [] OTHER -> Returned(PyInt(32767))
           [] kwarg = "elements" ->
                IF cls.name = "ChoiceFieldFaker" THEN Returned(PyStr("F1_CHOICES"))
                ELSE IF field.null THEN Returned(PyTuple("(None, True, False)"))
                ELSE Returned(PyTuple("(True, False)"))
           [] kwarg = "max_chars" -> Returned(PyInt(field.max_length))
           [] kwarg = "end_datetime" -> Returned(PyNone)
           [] kwarg = "tzinfo" -> Returned(PyStr("timezone.get_current_timezone()"))
           [] kwarg = "positive" -> Returned(PyNone)
           [] kwarg = "left_digits" ->
                IF cls.name = "DecimalFieldFaker"
                THEN Returned(PyInt(field.max_digits - field.decimal_places))
                ELSE Returned(PyNone)
           [] kwarg = "right_digits" ->
                IF cls.name = "DecimalFieldFaker"
                THEN Returned(PyInt(field.decimal_places))
                ELSE Returned(PyNone)
           [] kwarg = "factory" ->
                Returned(PyStr("model_factories.shop.OrderFactory"))
           [] kwarg = "provider" -> get_provider(field)

\* a resolution that looks at the plain attribute before the method
resolve_kwarg_attribute_first(cls, kwarg, field) ==
    IF kwarg \in cls.attrs THEN Returned(AttrValue(cls, kwarg))
    ELSE IF kwarg \in cls.methods THEN MethodCall(cls, kwarg, field)
    ELSE [ok |-> FALSE, error |-> Raised("ValueError", <<kwarg, cls.name>>, ""),
          val |-> PyNone]

\* lines 52-62: the value of one required parameter
resolve_kwarg(cls, kwarg, field) ==
    IF kwarg \in cls.methods THEN MethodCall(cls, kwarg, field)
    ELSE IF kwarg \in cls.attrs THEN Returned(AttrValue(cls, kwarg))
    ELSE [ok |-> FALSE, error |-> Raised("ValueError", <<kwarg, cls.name>>, ""),
          val |-> PyNone]

\* kwargs[kwarg] = val on a dict, which keeps the order of first insertion
dict_set(kwargs, kwarg, val) ==
    IF \E n \in DOMAIN kwargs : kwargs[n].key = kwarg
    THEN [n \in DOMAIN kwargs |->
            IF kwargs[n].key = kwarg THEN [key |-> kwarg, val |-> val] ELSE kwargs[n]]
    ELSE Append(kwargs, [key |-> kwarg, val |-> val])

\* lines 51-62: the loop over faker_kwargs
RECURSIVE faker_kwargs_loop(_, _, _, _)
faker_kwargs_loop(cls, field, n, kwargs) ==
    IF n > Len(cls.faker_kwargs) THEN [ok |-> TRUE, error |-> NoError, kwargs |-> kwargs]
    ELSE LET r == resolve_kwarg(cls, cls.faker_kwargs[n], field)
         IN  IF ~r.ok THEN [ok |-> FALSE, error |-> r.error, kwargs |-> <<>>]
             ELSE faker_kwargs_loop(cls, field, n + 1,
                                    dict_set(kwargs, cls.faker_kwargs[n], r.val))

\* lines 63-69: key=value, the value with repr unless the key is unquoted;
\* the text is the sequence of these items, joined by ', '
format_kwargs(cls, kwargs) ==
    [n \in DOMAIN kwargs |->
        [key |-> kwargs[n].key, val |-> kwargs[n].val,
         quoted |-> kwargs[n].key \notin cls.unquote_kwargs]]

\* FieldFaker.get_faker_kwargs
get_faker_kwargs(cls, field) ==
    IF Len(cls.faker_kwargs) = 0 THEN [ok |-> TRUE, error |-> NoError, text |-> <<>>]
    ELSE LET r == faker_kwargs_loop(cls, field, 1, <<>>)
         IN  IF r.ok THEN [ok |-> TRUE, error |-> NoError, text |-> format_kwargs(cls, r.kwargs)]
             ELSE [ok |-> FALSE, error |-> r.error, text |-> <<>>]

\* the class an identifier that import_from_string resolved stands for
ClassOf(imported, userclass) ==
    IF imported.module_path = <<"myapp", "fakers">> THEN userclass
    ELSE BuiltinClass(imported.class_name)

(***************************************************************************)
(* The applications and models of the project, and the file system         *)
(***************************************************************************)
\* apps.get_app_configs(), in order; "empty" is an application without models
APPS == <<"shop", "empty", "blog">>

\* app.get_models(), in order
AppModels(app) ==
    CASE app = "shop" -> <<"Order", "User">>
      [] app = "empty" -> <<>>
      [] app = "blog" -> <<"Post">>

ModelNames == {"Order", "User", "Post"}

\* str.lower of a model's name
Lower(model) ==
    CASE model = "Order" -> "order"
      [] model = "User" -> "user"
      [] model = "Post" -> "post"

F(name, class_name, choices, editable, unique) ==
    [name |-> name, class_name |-> class_name, has_choices_attr |-> TRUE,
     choices |-> choices, editable |-> editable,
     has_unique_attr |-> TRUE, unique |-> unique]

\* the declarations of the models the user switches between: in the second
\* Order gains a creation date, in the third User gains a field of a kind
\* that no strategy is registered for
SchemaPlain ==
    [m \in ModelNames |->
        CASE m = "Order" -> << F("id", "AutoField", <<>>, TRUE, TRUE),
                               F("total", "CharField", <<>>, TRUE, FALSE) >>
          [] m = "User" -> << F("id", "AutoField", <<>>, TRUE, TRUE),
                              F("email", "CharField", <<>>, TRUE, TRUE),
                              F("role", "CharField", <<"a", "b">>, TRUE, FALSE) >>
          [] m = "Post" -> << F("id", "AutoField", <<>>, TRUE, TRUE),
                              F("published", "DateTimeField", <<>>, TRUE, FALSE) >>]

SchemaDated ==
    [SchemaPlain EXCEPT !["Order"] = Append(@, F("created", "DateTimeField", <<>>, TRUE, FALSE))]

SchemaBroken ==
    [SchemaPlain EXCEPT !["User"] = Append(@, F("balance", "MoneyField", <<>>, TRUE, FALSE))]

Schemas == {SchemaPlain, SchemaDated, SchemaBroken}

DefaultSettings ==
    [FACTORY_NORMALIZE_FIELD_MAP |-> EmptyMap,
     FACTORY_IGNORE_FIELDS |-> {},
     FACTORY_IGNORE_NON_EDITABLE_FIELDS |-> TRUE,
     FACTORY_FIELD_FAKER_MAP |-> EmptyMap,
     FACTORY_ONLY_APPS |-> {},
     FACTORY_IGNORE_APPS |-> {}]

\* the settings Spec draws from
RunSettings ==
    {DefaultSettings,
     [DefaultSettings EXCEPT !.FACTORY_ONLY_APPS = {"shop"}],
     [DefaultSettings EXCEPT !.FACTORY_IGNORE_APPS = {"empty"}]}

\* FACTORY_ROOT_DIR, by default
root_dir == "model_factories"

\* PathMixin; a path is the sequence of its components under BASE_DIR
root_directory_path == <<root_dir>>
root_init_file_path == <<root_dir, "__init__.py">>
app_directory_path(app) == <<root_dir, app>>
app_init_file_path(app) == <<root_dir, app, "__init__.py">>
app_base_directory_path(app) == <<root_dir, app, "base">>
app_base_init_file_path(app) == <<root_dir, app, "base", "__init__.py">>

\* FactoryModelGenerator
\* "{filename}.py".format(filename=self.model.__name__.lower())
model_filename(model) ==
    CASE Lower(model) = "order" -> "order.py"
      [] Lower(model) = "user" -> "user.py"
      [] Lower(model) = "post" -> "post.py"
app_base_factory_file_path(app, model) == <<root_dir, app, "base", model_filename(model)>>
app_factory_file_path(app, model) == <<root_dir, app, model_filename(model)>>
factory_name(model) == <<model, "Factory">>
context_init(app, model) ==
    [module |-> <<root_dir, app, Lower(model)>>, factory |-> factory_name(model)]

AppNames == {APPS[i] : i \in 1..Len(APPS)}
ModelsOf(app) == {AppModels(app)[i] : i \in 1..Len(AppModels(app))}

DirPaths ==
    {root_directory_path}
        \cup {app_directory_path(a) : a \in AppNames}
        \cup {app_base_directory_path(a) : a \in AppNames}
MarkerPaths ==
    {root_init_file_path} \cup {app_base_init_file_path(a) : a \in AppNames}
IndexPaths == {app_init_file_path(a) : a \in AppNames}
BasePaths ==
    UNION {{app_base_factory_file_path(a, m) : m \in ModelsOf(a)} : a \in AppNames}
OverridePaths ==
    UNION {{app_factory_file_path(a, m) : m \in ModelsOf(a)} : a \in AppNames}
Paths == DirPaths \cup MarkerPaths \cup IndexPaths \cup BasePaths \cup OverridePaths

\* what a path holds: nothing, a directory, or a file with its text; the
\* text of a rendered file is the template and the context it was given
Absent == [kind |-> "absent", tpl |-> "", app |-> "", model |-> "", ctx |-> EmptyContext, imports |-> <<>>]
Dir == [kind |-> "dir", tpl |-> "", app |-> "", model |-> "", ctx |-> EmptyContext, imports |-> <<>>]
EmptyFile == [kind |-> "file", tpl |-> "", app |-> "", model |-> "", ctx |-> EmptyContext, imports |-> <<>>]
UserText == [kind |-> "file", tpl |-> "hand-written", app |-> "", model |-> "", ctx |-> EmptyContext, imports |-> <<>>]

\* render_to_string: the text of a template for a context
BaseText(model, ctx) ==
    [kind |-> "file", tpl |-> "factory_generator/base-factory.py-tpl",
     app |-> "", model |-> model, ctx |-> ctx, imports |-> <<>>]
\* the context of the override file names the model and its base module
FactoryText(app, model) ==
    [kind |-> "file", tpl |-> "factory_generator/factory.py-tpl",
     app |-> app, model |-> model, ctx |-> EmptyContext, imports |-> <<>>]
render_init_file(context_imports) ==
    [kind |-> "file", tpl |-> "factory_generator/app-init.py-tpl",
     app |-> "", model |-> "", ctx |-> EmptyContext, imports |-> context_imports]

\* os.path.exists
exists(files, path) == files[path].kind # "absent"

\* os.makedirs: the directory and every missing parent
makedirs(files, path) ==
    [p \in Paths |->
        IF /\ \E k \in 1..Len(path) : p = SubSeq(path, 1, k)
           /\ ~exists(files, p)
        THEN Dir ELSE files[p]]

\* open(path, 'a').close(): creates the file empty, keeps an existing one
touch(files, path) ==
    IF exists(files, path) THEN files ELSE [files EXCEPT ![path] = EmptyFile]

\* open(path, 'w'): creates the file empty, empties an existing one
open_w(files, path) == [files EXCEPT ![path] = EmptyFile]

bootstrap_root_dir(files) ==
    IF ~exists(files, root_directory_path)
    THEN touch(makedirs(files, root_directory_path), root_init_file_path)
    ELSE files

bootstrap_app_dirs(files, app) ==
    LET f1 == IF ~exists(files, app_directory_path(app))
              THEN makedirs(files, app_directory_path(app)) ELSE files
    IN  IF ~exists(f1, app_base_directory_path(app))
        THEN touch(makedirs(f1, app_base_directory_path(app)), app_base_init_file_path(app))
        ELSE f1

\* render_base: the text, or the error context_base raised
render_base(cfg, model, fields) ==
    LET ctx == context_base(cfg, fields)
    IN  [ok |-> ctx.ok, error |-> ctx.error, text |-> BaseText(model, ctx)]

\* a writer that keeps an existing base file
create_base_factory_file_if_absent(files, cfg, app, model, fields) ==
    LET path == app_base_factory_file_path(app, model)
        r == render_base(cfg, model, fields)
    IN  IF exists(files, path) THEN [ok |-> r.ok, files |-> files]
        ELSE IF r.ok THEN [ok |-> TRUE, files |-> [files EXCEPT ![path] = r.text]]
        ELSE [ok |-> FALSE, files |-> open_w(files, path)]

\* the file is opened for writing, and so emptied, before render_base is
\* evaluated; an error of render_base leaves it empty
create_base_factory_file(files, cfg, app, model, fields) ==
    LET path == app_base_factory_file_path(app, model)
        opened == open_w(files, path)
        r == render_base(cfg, model, fields)
    IN  IF r.ok THEN [ok |-> TRUE, files |-> [opened EXCEPT ![path] = r.text]]
        ELSE [ok |-> FALSE, files |-> opened]

\* a writer that replaces an existing override file
create_factory_file_always(files, app, model) ==
    [files EXCEPT ![app_factory_file_path(app, model)] = FactoryText(app, model)]

create_factory_file(files, app, model) ==
    IF ~exists(files, app_factory_file_path(app, model))
    THEN [files EXCEPT ![app_factory_file_path(app, model)] = FactoryText(app, model)]
    ELSE files

\* FactoryModelGenerator.create_files
model_create_files(files, cfg, app, model, fields) ==
    LET f1 == bootstrap_root_dir(files)
        f2 == bootstrap_app_dirs(f1, app)
        r3 == create_base_factory_file(f2, cfg, app, model, fields)
    IN  IF r3.ok THEN [ok |-> TRUE, files |-> create_factory_file(r3.files, app, model)]
        ELSE r3

\* an index writer that adds to the file instead of replacing it
create_init_file_append(files, app, context_imports) ==
    IF context_imports # <<>>
    THEN [files EXCEPT ![app_init_file_path(app)] =
              render_init_file(@.imports \o context_imports)]
    ELSE files

\* an index writer without the test of the imports
create_init_file_always(files, app, context_imports) ==
    [files EXCEPT ![app_init_file_path(app)] = render_init_file(context_imports)]

create_init_file(files, app, context_imports) ==
    IF context_imports # <<>>
    THEN [files EXCEPT ![app_init_file_path(app)] = render_init_file(context_imports)]
    ELSE files

\* Command.handle: the applications the settings leave out
app_skipped(cfg, app) ==
    IF Cardinality(cfg.FACTORY_ONLY_APPS) > 0
    THEN app \notin cfg.FACTORY_ONLY_APPS
    ELSE IF Cardinality(cfg.FACTORY_IGNORE_APPS) > 0
         THEN app \in cfg.FACTORY_IGNORE_APPS
         ELSE FALSE

(***************************************************************************)
(* Spec: runs of the generate_factories command                            *)
(***************************************************************************)
\* no strategy class is being rendered
NotImported ==
    [ok |-> FALSE, error |-> NoError, module_path |-> <<>>, class_name |-> "",
     need_timezone |-> FALSE]

NoKwargs == [ok |-> FALSE, error |-> NoError, text |-> <<>>]

IdleField ==
    [name |-> "f1", null |-> FALSE, protocol |-> "both", max_length |-> 100,
     max_digits |-> 10, decimal_places |-> 2, remote_app |-> "shop",
     remote_model |-> "Order"]

FakerIdle ==
    /\ fident = PlainFakerId
    /\ ucls = DefaultUserClass
    /\ ffield = IdleField
    /\ fstep = "init"
    /\ fimport = NotImported
    /\ fkwargs = NoKwargs

PlanIdle ==
    /\ pmodel = <<>>
    /\ kinds = <<>>
    /\ plan = EmptyContext
    /\ planned = FALSE

Init ==
    /\ settings \in RunSettings
    /\ PlanIdle
    /\ FakerIdle
    /\ schema \in Schemas
    /\ fs = [p \in Paths |-> Absent]
    /\ pc = "idle"
    /\ appIdx = 1
    /\ modelIdx = 1
    /\ imports = <<>>
    /\ app_created = <<>>
    /\ created_files = <<>>
    /\ stdout = <<>>
    /\ runs = 0
    /\ edits = 0
    /\ fs0 = [p \in Paths |-> Absent]
    /\ touched = FALSE
    /\ rerun = FALSE

Stopped == pc \in {"idle", "done", "failed"}

\* the command is started: handle begins with created_files = []
StartRun ==
    /\ Stopped
    /\ runs < MaxRuns
    /\ pc' = "running"
    /\ runs' = runs + 1
    /\ appIdx' = 1
    /\ modelIdx' = 1
    /\ imports' = <<>>
    /\ app_created' = <<>>
    /\ created_files' = <<>>
    /\ stdout' = <<>>
    /\ fs0' = fs
    /\ rerun' = (runs > 0 /\ ~touched)
    /\ touched' = FALSE
    /\ UNCHANGED <<fakerVars, settings, planVars, schema, fs, edits>>

\* handle: an application the settings leave out is passed over
SkipApp ==
    /\ pc = "running"
    /\ appIdx <= Len(APPS)
    /\ app_skipped(settings, APPS[appIdx])
    /\ appIdx' = appIdx + 1
    /\ UNCHANGED <<fakerVars, settings, planVars, schema, fs, pc, modelIdx, imports,
                   app_created, created_files, stdout, runs, edits, fs0,
                   touched, rerun>>

\* one turn of the loop of FactoryAppGenerator.create_files: the files of
\* the next model; an error of the planner ends the command
ModelCreateFiles ==
    /\ pc = "running"
    /\ appIdx <= Len(APPS)
    /\ ~app_skipped(settings, APPS[appIdx])
    /\ modelIdx <= Len(AppModels(APPS[appIdx]))
    /\ LET app == APPS[appIdx]
           model == AppModels(app)[modelIdx]
           r == model_create_files(fs, settings, app, model, schema[model])
       IN  /\ fs' = r.files
           /\ IF r.ok
              THEN /\ imports' = Append(imports, context_init(app, model))
                   /\ app_created' = Append(app_created, app_factory_file_path(app, model))
                   /\ modelIdx' = modelIdx + 1
                   /\ pc' = pc
              ELSE /\ pc' = "failed"
                   /\ UNCHANGED <<imports, app_created, modelIdx>>
    /\ UNCHANGED <<fakerVars, settings, planVars, schema, appIdx, created_files, stdout,
                   runs, edits, fs0, touched, rerun>>

\* the end of FactoryAppGenerator.create_files: the index file, and the
\* return of created_files to handle
AppFinish ==
    /\ pc = "running"
    /\ appIdx <= Len(APPS)
    /\ ~app_skipped(settings, APPS[appIdx])
    /\ modelIdx > Len(AppModels(APPS[appIdx]))
    /\ fs' = create_init_file(fs, APPS[appIdx], imports)
    /\ created_files' = created_files \o app_created
    /\ appIdx' = appIdx + 1
    /\ modelIdx' = 1
    /\ imports' = <<>>
    /\ app_created' = <<>>
    /\ UNCHANGED <<fakerVars, settings, planVars, schema, pc, stdout, runs, edits, fs0,
                   touched, rerun>>

\* the end of handle: the success summary
RunFinish ==
    /\ pc = "running"
    /\ appIdx > Len(APPS)
    /\ stdout' = created_files
    /\ pc' = "done"
    /\ UNCHANGED <<fakerVars, settings, planVars, schema, fs, appIdx, modelIdx, imports,
                   app_created, created_files, runs, edits, fs0, touched, rerun>>

\* between two runs the user writes a file by hand (making its directories)
UserEdit ==
    /\ Stopped
    /\ runs < MaxRuns
    /\ edits < MaxEdits
    /\ \E p \in BasePaths \cup OverridePaths \cup IndexPaths :
        /\ fs[p] # UserText
        /\ fs' = [makedirs(fs, SubSeq(p, 1, Len(p) - 1)) EXCEPT ![p] = UserText]
    /\ edits' = edits + 1
    /\ touched' = TRUE
    /\ UNCHANGED <<fakerVars, settings, planVars, schema, pc, appIdx, modelIdx, imports,
                   app_created, created_files, stdout, runs, fs0, rerun>>

\* between two runs the user deletes a generated or hand-written file
UserDelete ==
    /\ Stopped
    /\ runs < MaxRuns
    /\ edits < MaxEdits
    /\ \E p \in BasePaths \cup OverridePaths \cup IndexPaths :
        /\ fs[p].kind = "file"
        /\ fs' = [fs EXCEPT ![p] = Absent]
    /\ edits' = edits + 1
    /\ touched' = TRUE
    /\ UNCHANGED <<fakerVars, settings, planVars, schema, pc, appIdx, modelIdx, imports,
                   app_created, created_files, stdout, runs, fs0, rerun>>

\* between two runs the user changes the declaration of a model
UserChangeModels ==
    /\ Stopped
    /\ runs < MaxRuns
    /\ edits < MaxEdits
    /\ schema' \in Schemas \ {schema}
    /\ edits' = edits + 1
    /\ touched' = TRUE
    /\ UNCHANGED <<fakerVars, settings, planVars, fs, pc, appIdx, modelIdx, imports,
                   app_created, created_files, stdout, runs, fs0, rerun>>

Next ==
    \/ StartRun
    \/ SkipApp
    \/ ModelCreateFiles
    \/ AppFinish
    \/ RunFinish
    \/ UserEdit
    \/ UserDelete
    \/ UserChangeModels

Spec == Init /\ [][Next]_vars

(***************************************************************************)
(* SpecPlan: the planner applied to one model                              *)
(***************************************************************************)
RunIdle ==
    /\ schema = SchemaPlain
    /\ fs = [p \in Paths |-> Absent]
    /\ pc = "idle"
    /\ appIdx = 1
    /\ modelIdx = 1
    /\ imports = <<>>
    /\ app_created = <<>>
    /\ created_files = <<>>
    /\ stdout = <<>>
    /\ runs = 0
    /\ edits = 0
    /\ fs0 = [p \in Paths |-> Absent]
    /\ touched = FALSE
    /\ rerun = FALSE

\* the model whose fields the planner reads
PlannedModel == "Order"

InitPlan ==
    /\ settings \in PlanSettings
    /\ pmodel = <<>>
    /\ kinds = <<>>
    /\ plan = EmptyContext
    /\ planned = FALSE
    /\ RunIdle
    /\ FakerIdle

\* the host declares one more field of the model
DeclareField ==
    /\ ~planned
    /\ Len(pmodel) < MaxFields
    /\ \E shape \in FieldShapes :
        pmodel' = Append(pmodel, MkField(FieldNames[Len(pmodel) + 1], shape))
    /\ UNCHANGED <<fakerVars, settings, kinds, plan, planned, runVars>>

\* FactoryModelGenerator.context_base is read for the model; the kind of
\* each field is kept beside the plan
PlanModel ==
    /\ ~planned
    /\ kinds' = [i \in 1..Len(pmodel) |-> field_class(settings, pmodel[i])]
    /\ plan' = context_base(settings, pmodel)
    /\ planned' = TRUE
    /\ UNCHANGED <<fakerVars, settings, pmodel, runVars>>

NextPlan == DeclareField \/ PlanModel

SpecPlan == InitPlan /\ [][NextPlan]_vars

(***************************************************************************)
(* SpecFaker: one strategy identifier is imported and the class renders    *)
(* the parameters of one field                                             *)
(***************************************************************************)
\* the identifiers FIELD_FAKER_MAP can hold: the built-in ones and the
\* ones FACTORY_FIELD_FAKER_MAP of the project adds
FakerIdents ==
    {FakerId(n) : n \in BuiltinFakerNames}
        \cup {PlainFakerId, MissingFakerId, NoModuleFakerId, BareFakerId}

InitFaker ==
    /\ settings = DefaultSettings
    /\ PlanIdle
    /\ RunIdle
    /\ fident \in FakerIdents
    /\ ucls \in IF fident = PlainFakerId THEN UserClasses ELSE {DefaultUserClass}
    /\ ffield \in FakerFields
    /\ fstep = "init"
    /\ fimport = NotImported
    /\ fkwargs = NoKwargs

\* FactoryFieldGenerator.render, first line: field_faker_class imports the
\* class the identifier names; an error raised here ends the rendering
ImportClass ==
    /\ fstep = "init"
    /\ fimport' = import_from_string(fident)
    /\ fstep' = "imported"
    /\ UNCHANGED <<settings, planVars, runVars, fident, ucls, ffield, fkwargs>>

\* FieldFaker.render: the context of the template calls get_faker_kwargs
GetFakerKwargs ==
    /\ fstep = "imported"
    /\ fimport.ok
    /\ fkwargs' = get_faker_kwargs(ClassOf(fimport, ucls), ffield)
    /\ fstep' = "done"
    /\ UNCHANGED <<settings, planVars, runVars, fident, ucls, ffield, fimport>>

NextFaker == ImportClass \/ GetFakerKwargs

SpecFaker == InitFaker /\ [][NextFaker]_vars

(***************************************************************************)
(* Properties of the classifier and the planner (checked under SpecPlan)   *)
(***************************************************************************)
\* the position of a field name in the declaration of the planned model
Pos(name) == CHOOSE i \in DOMAIN pmodel : pmodel[i].name = name

\* seq holds names of fields of the planned model, in declaration order
\* and so each at most once
InDeclarationOrder(seq) ==
    /\ \A j \in DOMAIN seq : \E i \in DOMAIN pmodel : pmodel[i].name = seq[j]
    /\ \A j, k \in DOMAIN seq : j < k => Pos(seq[j]) < Pos(seq[k])

\* the ignore rule as the planner's contract states it, on the kinds the
\* classifier returned
Skipped(i) ==
    \/ kinds[i] \in {"ManyToOneRel", "ManyToManyRel", "OneToOneRel",
                     "AutoField", "BigAutoField"}
    \/ kinds[i] \in settings.FACTORY_IGNORE_FIELDS
    \/ (~pmodel[i].editable /\ settings.FACTORY_IGNORE_NON_EDITABLE_FIELDS)

\* C4: a field with a non-empty choice set classifies to the choice kind
\* whatever its declared kind (relationship kinds and aliased kinds
\* included); a field without choices classifies to the alias of its raw
\* kind when the alias table has one, and to the raw kind otherwise.
Thm_C4_Classification ==
    planned =>
        \A i \in DOMAIN pmodel :
            LET f == pmodel[i]
                alias == settings.FACTORY_NORMALIZE_FIELD_MAP
            IN  /\ (f.has_choices_attr /\ f.choices # <<>>) => kinds[i] = "ChoiceField"
                /\ (~f.has_choices_attr \/ f.choices = <<>>) =>
                       /\ f.class_name \in DOMAIN alias => kinds[i] = alias[f.class_name]
                       /\ f.class_name \notin DOMAIN alias => kinds[i] = f.class_name

\* a relationship field and an aliased field, both with choices, and both
\* classified as choice fields
Wit_C4_ChoiceWins ==
    /\ planned
    /\ Len(pmodel) = 2
    /\ pmodel[1].class_name = "ForeignKey" /\ pmodel[1].choices # <<>>
    /\ pmodel[2].class_name = "MoneyField" /\ pmodel[2].choices # <<>>
    /\ "MoneyField" \in DOMAIN settings.FACTORY_NORMALIZE_FIELD_MAP
    /\ kinds = <<"ChoiceField", "ChoiceField">>

\* C5: a field has an entry in the plan's fields exactly when its kind is
\* not in the ignore list (built-in and caller's) and it is editable or the
\* ignore-non-editable toggle is off; the entries are in declaration order.
Thm_C5_IgnoreRule ==
    (planned /\ plan.ok) =>
        /\ \A i \in DOMAIN pmodel :
               (\E j \in DOMAIN plan.fields : plan.fields[j] = pmodel[i].name)
                   <=> ~Skipped(i)
        /\ InDeclarationOrder(plan.fields)

\* a non-editable field left out under the default toggle, next to a field
\* that got its entry
Wit_C5_NonEditableSkipped ==
    /\ planned /\ plan.ok
    /\ Len(pmodel) = 2
    /\ settings.FACTORY_IGNORE_NON_EDITABLE_FIELDS
    /\ pmodel[1].class_name = "CharField" /\ ~pmodel[1].editable
    /\ pmodel[2].class_name = "CharField" /\ pmodel[2].editable
    /\ plan.fields = <<"f2">>

\* C6, as claimed: every model that contains a datetime-kind field has a
\* plan with need_timezone = true.
Cex_C6_AnyDateTimeField ==
    (planned /\ plan.ok /\ \E i \in DOMAIN pmodel : pmodel[i].class_name = "DateTimeField")
        => plan.need_timezone

\* C6, amended: a model with a field that is not ignored, classifies to the
\* datetime kind (so has no choice set) and keeps the built-in datetime
\* strategy has a plan with need_timezone = true, whatever its other fields.
Thm_C6_PlannedDateTimeField ==
    (/\ planned
     /\ plan.ok
     /\ "DateTimeField" \notin DOMAIN settings.FACTORY_FIELD_FAKER_MAP
     /\ \E i \in DOMAIN pmodel : kinds[i] = "DateTimeField" /\ ~Skipped(i))
        => plan.need_timezone

\* a plan with the flag set by its only datetime field
Wit_C6_OnlyDateTimeField ==
    /\ planned /\ plan.ok
    /\ Len(pmodel) = 2
    /\ "DateTimeField" \notin DOMAIN settings.FACTORY_FIELD_FAKER_MAP
    /\ kinds = <<"CharField", "DateTimeField">>
    /\ plan.fields = <<"f1", "f2">>
    /\ plan.need_timezone

\* C7: the plan's unique list holds exactly the names of the fields that
\* are declared unique and are not ignored, each once, in declaration
\* order; an ignored unique field is not in it.
Thm_C7_UniqueList ==
    (planned /\ plan.ok) =>
        /\ \A i \in DOMAIN pmodel :
               (\E j \in DOMAIN plan.unique : plan.unique[j] = pmodel[i].name)
                   <=> (pmodel[i].has_unique_attr /\ pmodel[i].unique /\ ~Skipped(i))
        /\ InDeclarationOrder(plan.unique)

\* the unique identity field is ignored and left out, the unique field
\* after it is listed
Wit_C7_IdentityLeftOut ==
    /\ planned /\ plan.ok
    /\ Len(pmodel) = 2
    /\ pmodel[1].class_name = "AutoField" /\ pmodel[1].unique /\ pmodel[1].editable
    /\ pmodel[2].class_name = "CharField" /\ pmodel[2].unique
    /\ plan.unique = <<"f2">>

(***************************************************************************)
(* Properties of the runs of the command (checked under Spec)              *)
(***************************************************************************)
\* the import entries of all the models of an application, in order
ImportsOf(app) ==
    [i \in 1..Len(AppModels(app)) |-> context_init(app, AppModels(app)[i])]

\* the application the run is in, when it is in one that is not left out
InApp(app) ==
    /\ pc = "running"
    /\ appIdx <= Len(APPS)
    /\ APPS[appIdx] = app
    /\ ~app_skipped(settings, app)

\* C1: no step of a run changes an override-layer file that exists when
\* the step begins, whoever wrote it (an earlier run or the user).
Thm_C1_OverrideKept ==
    [][pc = "running" =>
          \A p \in OverridePaths : exists(fs, p) => fs'[p] = fs[p]]_vars

\* a run is over, and a hand-written override file of a model it processed
\* is as the user left it
Wit_C1_UserOverrideSurvives ==
    /\ pc = "done"
    /\ \E p \in OverridePaths :
        /\ fs0[p] = UserText
        /\ fs[p] = UserText
        /\ \E i \in DOMAIN stdout : stdout[i] = p

\* C2: after create_files succeeded for a model, its base-layer file holds
\* the rendering of the model's current plan, whatever it held before.
Thm_C2_BaseRewritten ==
    [][(pc = "running" /\ modelIdx' = modelIdx + 1) =>
          LET app == APPS[appIdx]
              model == AppModels(app)[modelIdx]
              ctx == context_base(settings, schema[model])
          IN  /\ ctx.ok
              /\ fs'[app_base_factory_file_path(app, model)] = BaseText(model, ctx)]_vars

\* a run is over and has replaced a hand-edited base file and the base file
\* an earlier run wrote for another declaration of the model
Wit_C2_EditedBaseReplaced ==
    /\ pc = "done"
    /\ runs = 2
    /\ schema = SchemaDated
    /\ fs0[app_base_factory_file_path("shop", "Order")] =
           BaseText("Order", context_base(settings, SchemaPlain["Order"]))
    /\ fs[app_base_factory_file_path("shop", "Order")] =
           BaseText("Order", context_base(settings, SchemaDated["Order"]))
    /\ fs0[app_base_factory_file_path("shop", "User")] = UserText
    /\ fs[app_base_factory_file_path("shop", "User")].tpl =
           "factory_generator/base-factory.py-tpl"

\* C3: a run that starts from the result of the previous run, with the
\* models, the settings and the files untouched in between, ends with every
\* path holding what it held when the run started.
Thm_C3_Idempotent ==
    (pc \in {"done", "failed"} /\ rerun /\ ~touched) => fs = fs0

\* a second run is over on the untouched result of the first, which wrote
\* the files of two applications around a hand-written override file
Wit_C3_SecondRun ==
    /\ pc = "done"
    /\ rerun /\ ~touched
    /\ fs[app_factory_file_path("shop", "Order")] = UserText
    /\ fs[app_init_file_path("shop")] = render_init_file(ImportsOf("shop"))
    /\ fs[app_init_file_path("blog")] = render_init_file(ImportsOf("blog"))
    /\ exists(fs, app_base_factory_file_path("blog", "Post"))

\* C8: during a run the index file of an application changes only in the
\* step that ends the application, after all its models; it then lists one
\* import per model of the application; an application without models
\* leaves its index file as it is and returns no path.
Thm_C8_IndexFile ==
    [][pc = "running" =>
          \A a \in AppNames :
              LET p == app_init_file_path(a)
              IN  /\ fs'[p] # fs[p] =>
                         /\ InApp(a)
                         /\ modelIdx > Len(AppModels(a))
                         /\ AppModels(a) # <<>>
                  /\ (InApp(a) /\ appIdx' = appIdx + 1) =>
                         IF AppModels(a) = <<>>
                         THEN fs'[p] = fs[p] /\ created_files' = created_files
                         ELSE /\ fs'[p] = render_init_file(ImportsOf(a))
                              /\ Len(created_files') = Len(created_files) + Len(AppModels(a))]_vars

\* a run is over: it replaced the hand-written index of an application with
\* models and kept the hand-written index of the application without models
Wit_C8_IndexWritten ==
    /\ pc = "done"
    /\ ~app_skipped(settings, "empty")
    /\ fs0[app_init_file_path("shop")] = UserText
    /\ fs[app_init_file_path("shop")] = render_init_file(ImportsOf("shop"))
    /\ fs0[app_init_file_path("empty")] = UserText
    /\ fs[app_init_file_path("empty")] = UserText

\* C9, as claimed: no path of the success summary is the path of an
\* override file that existed before the run.
Cex_C9_OnlyCreatedReported ==
    pc = "done" => \A i \in DOMAIN stdout : ~exists(fs0, stdout[i])

\* C10, as claimed: the step in which a model fails changes no existing
\* file and moves to no later model or application.
Cex_C10_FailureKeepsFiles ==
    [][(pc = "running" /\ pc' = "failed") =>
          /\ \A p \in Paths : fs[p].kind = "file" => fs'[p] = fs[p]
          /\ appIdx' = appIdx /\ modelIdx' = modelIdx]_vars


(***************************************************************************)
(* Properties of the strategy classes (checked under SpecFaker)            *)
(***************************************************************************)
\* the class whose parameters were rendered
RenderedClass == ClassOf(fimport, ucls)

\* what the resolution order gives for one required parameter: the result
\* of get_<name> when the class has it, else the attribute <name>
ExpectedKwarg(k) ==
    IF k \in RenderedClass.methods THEN MethodCall(RenderedClass, k, ffield)
    ELSE Returned(AttrValue(RenderedClass, k))

\* the required parameter at position n has a method or an attribute, and
\* the method, when it is the one used, returns
ResolvesAt(n) ==
    LET k == RenderedClass.faker_kwargs[n]
    IN  /\ k \in RenderedClass.methods \cup RenderedClass.attrs
        /\ ExpectedKwarg(k).ok

\* the first position of a name in the declaration of the parameters
FirstAt(k) ==
    CHOOSE n \in DOMAIN RenderedClass.faker_kwargs :
        /\ RenderedClass.faker_kwargs[n] = k
        /\ \A m \in 1..(n - 1) : RenderedClass.faker_kwargs[m] # k

\* C11: when get_faker_kwargs has run, either every required parameter
\* resolved and the result has one entry per required name, in declared
\* order, whose value is that of the method get_<name> when the class has
\* one and of the attribute <name> otherwise (the method wins when both
\* exist); or the call failed at the first required parameter that does not
\* resolve, with a ValueError naming that parameter and the class when the
\* class has neither a method nor an attribute for it.
Thm_C11_ResolutionOrder ==
    fstep = "done" =>
        LET kw == RenderedClass.faker_kwargs
            bad == {n \in DOMAIN kw :
                        ~ResolvesAt(n) /\ \A m \in 1..(n - 1) : ResolvesAt(m)}
        IN  IF bad = {}
            THEN /\ fkwargs.ok
                 /\ \A n \in DOMAIN kw :
                        \E j \in DOMAIN fkwargs.text : fkwargs.text[j].key = kw[n]
                 /\ \A j \in DOMAIN fkwargs.text :
                        /\ \E n \in DOMAIN kw : kw[n] = fkwargs.text[j].key
                        /\ fkwargs.text[j].val = ExpectedKwarg(fkwargs.text[j].key).val
                 /\ \A i, j \in DOMAIN fkwargs.text :
                        i < j => FirstAt(fkwargs.text[i].key) < FirstAt(fkwargs.text[j].key)
            ELSE \A n \in bad :
                    /\ ~fkwargs.ok
                    /\ fkwargs.text = <<>>
                    /\ IF kw[n] \in RenderedClass.methods \cup RenderedClass.attrs
                       THEN fkwargs.error = ExpectedKwarg(kw[n]).error
                       ELSE fkwargs.error = Raised("ValueError", <<kw[n], RenderedClass.name>>, "")

\* a class of the project with a method and an attribute for the same
\* required parameter: the entry holds what the method returned
Wit_C11_MethodWins ==
    /\ fstep = "done"
    /\ fident = PlainFakerId
    /\ fkwargs.ok
    /\ \E j \in DOMAIN fkwargs.text :
        /\ fkwargs.text[j].key \in ucls.methods \cap ucls.attrs
        /\ fkwargs.text[j].val = PyStr("computed")

\* C13: every identifier that cannot be located fails with an ImportError
\* that names the identifier and the cause.
Cex_C13_UniformImportError ==
    (fstep # "init" /\ ~fimport.ok) =>
        /\ fimport.error.type = "ImportError"
        /\ fimport.error.names = fident
        /\ fimport.error.cause # ""

\* C15: for the IP-address class, get_provider returns 'ipv4' or 'ipv6' for
\* protocol 'both', 'ipv4' for 'IPv4' and 'ipv6' for 'IPv6', and the
\* rendering of the parameters does not fail.
Cex_C15_ProviderPerProtocol ==
    (fstep = "done" /\ fimport.class_name = "GenericIPAddressFieldFaker") =>
        /\ get_provider(ffield).ok
        /\ get_provider(ffield).val \in
              CASE ffield.protocol = "both" -> {PyStr("ipv4"), PyStr("ipv6")}
                [] ffield.protocol = "IPv4" -> {PyStr("ipv4")}
                [] ffield.protocol = "IPv6" -> {PyStr("ipv6")}
        /\ fkwargs.ok
        /\ fkwargs.text[1].val = get_provider(ffield).val

(***************************************************************************)
(* The unregistered kind (checked under SpecPlan)                          *)
(***************************************************************************)
\* C12: when the first field the planner cannot resolve is a non-ignored
\* field whose kind is not in FIELD_FAKER_MAP, the plan fails with a
\* KeyError that names the model and the field, and the plan has no entry
\* for the field.
Cex_C12_LookupErrorNamesField ==
    planned =>
        \A i \in DOMAIN pmodel :
            ( /\ ~Skipped(i)
              /\ kinds[i] \notin DOMAIN FIELD_FAKER_MAP(settings)
              /\ \A j \in 1..(i - 1) :
                    Skipped(j) \/ need_timezone(settings, pmodel[j]).ok )
            => /\ ~plan.ok
               /\ plan.error.type = "KeyError"
               /\ \E n \in DOMAIN plan.error.names :
                    plan.error.names[n] = pmodel[i].name
               /\ \E n \in DOMAIN plan.error.names :
                    plan.error.names[n] = PlannedModel
               /\ \A n \in DOMAIN plan.fields : plan.fields[n] # pmodel[i].name

(***************************************************************************)
(* The bootstrap of the directories (checked under Spec)                   *)
(***************************************************************************)
\* the base and override files of the models of an application
FactoryPaths(app) ==
    {app_base_factory_file_path(app, m) : m \in ModelsOf(app)}
        \cup {app_factory_file_path(app, m) : m \in ModelsOf(app)}

\* C14: a step of a run that writes a factory file of a model leaves the
\* root directory, the application directory and its base directory in
\* place, each with an empty __init__.py; and no step of a run changes an
\* __init__.py that exists.
Cex_C14_MarkersAtBootstrap ==
    [][pc = "running" =>
        /\ \A a \in AppNames :
            (\E p \in FactoryPaths(a) : fs'[p] # fs[p]) =>
                /\ fs'[root_directory_path] = Dir
                /\ fs'[app_directory_path(a)] = Dir
                /\ fs'[app_base_directory_path(a)] = Dir
                /\ fs'[root_init_file_path] = EmptyFile
                /\ fs'[app_init_file_path(a)] = EmptyFile
                /\ fs'[app_base_init_file_path(a)] = EmptyFile
        /\ \A m \in MarkerPaths \cup IndexPaths :
            fs[m].kind = "file" => fs'[m] = fs[m]]_vars

====
